---- MODULE Spec2Model ----
(***************************************************************************)
(* A model of the NICER pointing pipeline: the field-of-view filter of     *)
(* XmmCatalog and CompareCatalog, the photon index / Nh estimator with its *)
(* cross-match index table, the optimal-pointing search and the            *)
(* variability classifier.                                                 *)
(*                                                                         *)
(* Units.  Angles are integers in arcminutes (a full circle of right       *)
(* ascension is 21600).  Photon indices are integers in tenths (1.7 is     *)
(* 17).  Column densities are integers in units of 1e20 cm^-2 (3e20 is 3). *)
(***************************************************************************)
EXTENDS Integers, Sequences, FiniteSets, TLC

VARIABLES
    pc,                     \* the statement of __init__ that runs next
    cls,                    \* "XmmCatalog" or "CompareCatalog"
    key,                    \* <<key_1, key_2>> (<<"XMM", "">> for XmmCatalog)
    object_position,        \* object_data["object_position"]
    radius,                 \* the search radius
    table,                  \* <<table_1, table_2>>, the catalogs as opened
    small_table,            \* <<small_table_1, small_table_2>>
    nearby_sources_table,   \* <<nearby_sources_table_1, nearby_sources_table_2>>
    xmm_dr11_table,         \* 4XMM_DR11cat_v1.0.fits
    xmm_2_athena_table,     \* xmm2athena_D6.1_V3.fits
    nh_dictionnary,         \* NHI_HPX.fits, the galactic Nh sky map
    index_table,            \* the cross-match index table once Table() has built it
    fit_calls,              \* the <<k, row>> for which curve_fit was called
    error,                  \* "" or the exception that ended the run
    simulation_data,        \* the target's count rate, the telescope, the background
    count_rates,            \* <<count_rates_1, count_rates_2>>
    vector_dictionary,      \* <<vector_dictionary_1, vector_dictionary_2>>
    OptimalPointingIdx,     \* <<OptimalPointingIdx_1, OptimalPointingIdx_2>>
    SRCoptimalSEPAR,        \* <<SRCoptimalSEPAR_1, SRCoptimalSEPAR_2>>
    SRCoptimalRATES,        \* <<SRCoptimalRATES_1, SRCoptimalRATES_2>>
    master_source_cone,     \* Master_source_cone.fits, as STILTS has written it
    var_index,              \* <<var_index_1, var_index_2>>
    variability_table,      \* XmmCatalog.variability_table
    invar,                  \* the invar_ra and invar_dec of neighbourhood_of_object
    total_spectra,          \* <<total_spectra_1, total_spectra_2>>
    total_var_spectra,      \* <<total_var_spectra_1, total_var_spectra_2>>
    data,                   \* <<data_1, data_2>> of total_spectra_plot
    fits_files              \* the keys k whose k_nearby_sources_table.fits is written

\* what a run is given
Inputs == <<cls, key, object_position, radius, table, xmm_dr11_table,
            xmm_2_athena_table, nh_dictionnary, simulation_data, master_source_cone>>

\* what the estimator writes, and what the optimizer writes
EstimatorVars == <<index_table, fit_calls>>
OptimizerVars == <<count_rates, vector_dictionary, OptimalPointingIdx,
                   SRCoptimalSEPAR, SRCoptimalRATES>>

ClassifierVars == <<var_index, variability_table, invar>>
SpectraVars == <<total_spectra, total_var_spectra, data, fits_files>>

vars == <<pc, error, Inputs, small_table, nearby_sources_table,
          EstimatorVars, OptimizerVars, ClassifierVars, SpectraVars>>

-----------------------------------------------------------------------------
(* Bounds of the model. *)

\* the two catalogs of a run hold at most MaxRows rows together
MaxRows == 2

-----------------------------------------------------------------------------
(* Sequences. *)

Range(s) == { s[i] : i \in 1..Len(s) }

SeqsUpTo(S, n) == UNION { [1..m -> S] : m \in 0..n }

\* list(column).index(x): the first position (from 0) of x, x being in s
IndexOf(s, x) == (CHOOSE i \in 1..Len(s) : s[i] = x /\ \A j \in 1..(i-1) : s[j] # x) - 1

Abs(n) == IF n < 0 THEN -n ELSE n
Min(a, b) == IF a < b THEN a ELSE b

-----------------------------------------------------------------------------
(* GeometryKit. *)

\* The square of the great-circle separation of two sky positions, for
\* positions within a few arcminutes of the equator, where a degree of right
\* ascension is a degree on the sky: exact along the equator, where the
\* separation is the shorter way round the circle of right ascension.
SeparationSq(a, b) ==
    LET d   == Abs(a.ra - b.ra)
        dra == Min(d, 21600 - d)
        dde == Abs(a.dec - b.dec)
    IN  dra * dra + dde * dde

\* a cut that keeps the rows at the radius too
ang_separation_le(a, b, r) == SeparationSq(a, b) <= r * r

\* c_f.ang_separation(a, b) < r
ang_separation_lt(a, b, r) == SeparationSq(a, b) < r * r

-----------------------------------------------------------------------------
(* SourceReconciler: the field-of-view filter. *)

\* radius + 5*u.arcmin
margin == 5
field_of_view(r) == r + margin

\* min_ra < RA < max_ra and min_dec < Dec < max_dec: min_ra and max_ra are
\* plain angles (the target's longitude minus or plus the field of view, not
\* wrapped), the row's RA is the catalog's value in [0, 360)
InBox(row, obj, r) ==
    /\ obj.ra - field_of_view(r) < row.ra
    /\ row.ra < obj.ra + field_of_view(r)
    /\ obj.dec - field_of_view(r) < row.dec
    /\ row.dec < obj.dec + field_of_view(r)

\* the first loop: the rectangular prefilter
Prefilter(t, obj, r) ==
    LET Keep(row) == InBox(row, obj, r) IN SelectSeq(t, Keep)

\* the second loop: the exact circular cut
CircularCut(t, obj, r) ==
    LET Keep(row) == ang_separation_lt(obj, row, r) IN SelectSeq(t, Keep)

\* u_f.create_unique_sources_catalog: one row per source name, the first
\* occurrence of a name giving the row's values
RECURSIVE create_unique_sources_catalog(_)
create_unique_sources_catalog(t) ==
    IF t = <<>> THEN <<>>
    ELSE LET h == Head(t)
             Other(row) == row.name # h.name
         IN  <<h>> \o create_unique_sources_catalog(SelectSeq(Tail(t), Other))

-----------------------------------------------------------------------------
(* The inputs of a run. *)

Keys == {"Xmm_DR13", "CSC_2.0", "Swift", "eRASS1"}
KeyPairs == { kk \in Keys \X Keys : kk[1] # kk[2] }
IsOther(k) == k \in {"Swift", "eRASS1"}

\* the target: three arcminutes east of RA = 0, or far from it, on the equator
Targets == { [ra |-> 3, dec |-> 0], [ra |-> 600, dec |-> 0] }

\* the fractional variability the catalogs hold for a source: J1 has one
Fvar(n) == IF n = "J1" THEN [t |-> "float", v |-> "3"] ELSE [t |-> "float", v |-> "nan"]

\* a catalog row: the name and position columns, the band fluxes (named by
\* what the curve fit makes of them), and the columns only one catalog has
Row(n, obj, dra, ddec, f, id, g, nh) ==
    [name |-> n, ra |-> (obj.ra + dra + 21600) % 21600, dec |-> obj.dec + ddec,
     flux |-> f, SRCID |-> id, powlaw_gamma |-> g, nh_gal |-> nh, SC_FVAR |-> Fvar(n)]

\* the rows the catalogs of the field-of-view runs are made of: two inside
\* the radius, one of them west of the target, one inside the box and outside
\* the radius, one exactly at the radius, one outside the box, and a second
\* row of J1 with other fluxes
FovRows(obj) ==
    { Row("J1", obj, 2, 1, "F_pos", 1, 0, 0),
      Row("J2", obj, 2, 1, "F_pos", 1, 0, 0),
      Row("J1", obj, -4, 0, "F_pos", 1, 0, 0),
      Row("J2", obj, 6, 2, "F_pos", 1, 0, 0),
      Row("J2", obj, 3, 4, "F_pos", 1, 0, 0),
      Row("J2", obj, 0, 11, "F_pos", 1, 0, 0),
      Row("J1", obj, 2, 1, "F_neg", 1, 0, 0) }

\* a cone search returns rows within the radius of the target
IsConeSearchResult(t, obj, r) ==
    \A i \in 1..Len(t) : ang_separation_lt(obj, t[i], r)

\* the pairs of catalogs a run with the keys kk can open
TablePairs(Rows, kk, obj, r) ==
    { tt \in SeqsUpTo(Rows, MaxRows) \X SeqsUpTo(Rows, MaxRows) :
        /\ Len(tt[1]) + Len(tt[2]) <= MaxRows
        /\ \A k \in 1..2 : kk[k] = "CSC_2.0" => IsConeSearchResult(tt[k], obj, r)
        /\ kk[2] = "" => tt[2] = <<>> }

\* no index table has been built
NoTable == [built |-> FALSE, rows |-> <<>>]

-----------------------------------------------------------------------------
(* find_nearby_sources. *)

\* CompareCatalog.find_nearby_sources, the table at place k of the pair
Cut(k) == CircularCut(Prefilter(table[k], object_position, radius), object_position, radius)

NearbyOf(k) ==
    IF key[k] = "CSC_2.0" THEN table[k]
    ELSE IF key[k] = "Xmm_DR13" THEN Cut(k)
    ELSE create_unique_sources_catalog(Cut(k))

\* a Swift or eRASS1 table with no row in the radius ends the run
NoSourcesDetected(k) == IsOther(key[k]) /\ Cut(k) = <<>>

SmallOf(k) ==
    IF key[k] = "CSC_2.0" THEN <<>> ELSE Prefilter(table[k], object_position, radius)

CompareFindNearbySources ==
    /\ pc = "find_nearby_sources"
    /\ cls = "CompareCatalog"
    /\ small_table' = <<SmallOf(1), IF NoSourcesDetected(1) THEN <<>> ELSE SmallOf(2)>>
    /\ IF NoSourcesDetected(1) \/ NoSourcesDetected(2)
       THEN /\ pc' = "exit"
            /\ UNCHANGED nearby_sources_table
       ELSE /\ pc' = "photon_index_nh_for_xmm"
            /\ nearby_sources_table' = <<NearbyOf(1), NearbyOf(2)>>
    /\ UNCHANGED <<error, Inputs, EstimatorVars, OptimizerVars, ClassifierVars, SpectraVars>>

\* XmmCatalog.find_nearby_sources: sys.exit() raises SystemExit, which
\* "except Exception" does not catch
XmmFindNearbySources ==
    /\ pc = "find_nearby_sources"
    /\ cls = "XmmCatalog"
    /\ small_table' = <<Prefilter(table[1], object_position, radius), <<>>>>
    /\ IF Cut(1) # <<>>
       THEN /\ pc' = "get_phoindex_nh"
            /\ nearby_sources_table' = <<Cut(1), <<>>>>
       ELSE /\ pc' = "exit"
            /\ UNCHANGED nearby_sources_table
    /\ UNCHANGED <<error, Inputs, EstimatorVars, OptimizerVars, ClassifierVars, SpectraVars>>

-----------------------------------------------------------------------------
(* SpectralParameterEstimator: the values of the tables. *)

\* the fallback photon index 1.7 and the fallback Nh 3e20
default_photon_index == 17
default_nh == 3

\* the values of a numpy index array: an integer, a string (the array after
\* np.append has put a string in it), a float (after np.append has put nan
\* in it).  The digits are kept as a string in all three.
IntV(i)   == [t |-> "int",   v |-> ToString(i)]
StrV(str) == [t |-> "str",   v |-> str]
FloatV(i) == [t |-> "float", v |-> ToString(i)]
NaN       == [t |-> "float", v |-> "nan"]

\* an entry that is the digits of a row index
SentinelZero == StrV("0")

\* the "not found" entry of the "Index in x2a" column
NoDataFound == StrV("No data found")

\* np.append(array, value): one string makes every element a string, one
\* float makes every integer a float
AsStr(x)   == StrV(x.v)
AsFloat(x) == IF x.t = "int" THEN [t |-> "float", v |-> x.v] ELSE x
NumpyArray(s) ==
    IF \E i \in 1..Len(s) : s[i].t = "str" THEN [i \in 1..Len(s) |-> AsStr(s[i])]
    ELSE IF \E i \in 1..Len(s) : s[i].t = "float" THEN [i \in 1..Len(s) |-> AsFloat(s[i])]
    ELSE s

\* value != "No data found": an integer is never equal to a string
PyNotEqual(x, y) == x.t # y.t \/ x.v # y.v

\* Table(names=..., data=[...]) raises ValueError when the columns differ in length
ColumnsAgree(lens) == \A a \in lens : \A b \in lens : a = b

\* table["Photon Index"] = ..., table["Nh"] = ...
SetColumns(row, g, nh) ==
    [f \in DOMAIN row \cup {"PhotonIndex", "Nh"} |->
        IF f = "PhotonIndex" THEN g ELSE IF f = "Nh" THEN nh ELSE row[f]]

\* table["Nh min value"] = ..., table["Nh max value"] = ...
SetNhLimits(row, lo, hi) ==
    [f \in DOMAIN row \cup {"Nh_min_value", "Nh_max_value"} |->
        IF f = "Nh_min_value" THEN lo ELSE IF f = "Nh_max_value" THEN hi ELSE row[f]]

HasPhotonIndex(row) == "PhotonIndex" \in DOMAIN row

\* np.exp(logNH * np.log(10)), in units of 1e20, for logNH >= 20
NhOfLog(l) == 10 ^ (l - 20)

\* scipy's curve_fit on the band fluxes of a row: it raises, or it converges
\* to a photon index that is negative, zero or positive
curve_fit(f) ==
    CASE f = "F_raise" -> [raised |-> TRUE,  gamma |-> 0]
      [] f = "F_neg"   -> [raised |-> FALSE, gamma |-> -5]
      [] f = "F_zero"  -> [raised |-> FALSE, gamma |-> 0]
      [] OTHER         -> [raised |-> FALSE, gamma |-> 21]

\* CompareCatalog.optimization: the except branch binds absorb_pho_index for
\* the key "CS_Chandra" alone, and the return statement reads it
optimization(k, row) ==
    LET fit == curve_fit(row.flux) IN
    IF ~fit.raised THEN [err |-> "", photon_index |-> fit.gamma]
    ELSE IF k = "CS_Chandra" THEN [err |-> "", photon_index |-> default_photon_index]
    ELSE [err |-> "UnboundLocalError", photon_index |-> 0]

\* XmmCatalog.optim_index: the except branch sets perr = 0.0 and the return
\* statement reads perr[1]
optim_index(row) ==
    LET fit == curve_fit(row.flux) IN
    IF ~fit.raised THEN [err |-> "", photon_index |-> fit.gamma]
    ELSE [err |-> "TypeError", photon_index |-> default_photon_index]

\* the column c of the table t
Column(t, c) == [i \in 1..Len(t) |-> t[i][c]]

\* the first row of a loop over 1..n that raises, 0 when none does
FirstError(R, n) ==
    IF \E i \in 1..n : R[i].err # ""
    THEN CHOOSE i \in 1..n : R[i].err # "" /\ \A j \in 1..(i-1) : R[j].err = ""
    ELSE 0

\* what a loop over the rows leaves: the exception of the first row that
\* raises, or the table with its two new columns; and the rows fitted
LoopResult(t, R, it) ==
    LET n == Len(t)
        e == FirstError(R, n)
    IN  [err   |-> IF e = 0 THEN "" ELSE R[e].err,
         table |-> IF e = 0 THEN [i \in 1..n |-> SetColumns(t[i], R[i].g, R[i].nh)] ELSE t,
         index_table |-> it,
         fits  |-> { i \in 1..n : R[i].fit /\ (e = 0 \/ i <= e) }]

Failed(t, e) == [err |-> e, table |-> t, index_table |-> NoTable, fits |-> {}]

-----------------------------------------------------------------------------
(* SpectralParameterEstimator: the cross-match and the estimators. *)

\* the loop over the names: the positions in DR11 of the names found there
NamesFound(names) ==
    LET InDr11(nm) == nm \in Range(Column(xmm_dr11_table, "IAUNAME"))
    IN  SelectSeq(names, InDr11)

PositionInDr11(nm) == IndexOf(Column(xmm_dr11_table, "IAUNAME"), nm)

\* the loop over the DETID of the DR11 rows found: the position in Xmm2Athena
\* or "No data found"
IndexX2a(found) ==
    LET ids == Column(xmm_2_athena_table, "DETID")
        det(i) == xmm_dr11_table[PositionInDr11(found[i]) + 1].DETID
    IN  NumpyArray([i \in 1..Len(found) |->
            IF det(i) \in Range(ids) THEN IntV(IndexOf(ids, det(i))) ELSE NoDataFound])

\* index_table = Table(names=column_names, data=column_data)
IndexTable(n, index_dr11, index_x2a) ==
    [built |-> TRUE,
     rows  |-> [i \in 1..n |-> [src |-> IntV(i - 1), dr11 |-> index_dr11[i],
                                x2a |-> index_x2a[i]]]]

\* CompareCatalog.photon_index_nh_for_xmm on the nearby table t: a name
\* missing from DR11 appends nothing to index_dr11
photon_index_nh_for_xmm(t) ==
    LET n          == Len(t)
        found      == NamesFound(Column(t, "name"))
        index_dr11 == [i \in 1..Len(found) |-> IntV(PositionInDr11(found[i]))]
        index_x2a  == IndexX2a(found)
        R == [i \in 1..n |->
                IF PyNotEqual(index_x2a[i], NoDataFound)
                THEN IF i > Len(xmm_2_athena_table)
                     THEN [err |-> "IndexError", g |-> 0, nh |-> 0, fit |-> FALSE]
                     ELSE [err |-> "", g |-> xmm_2_athena_table[i].PhoIndex_med,
                           nh |-> NhOfLog(xmm_2_athena_table[i].logNH_med), fit |-> FALSE]
                ELSE LET o == optimization("XMM", t[i])
                     IN  [err |-> o.err, g |-> o.photon_index, nh |-> default_nh, fit |-> TRUE]]
    IN  IF ~ColumnsAgree({n, Len(index_dr11), Len(index_x2a)})
        THEN Failed(t, "ValueError")
        ELSE LoopResult(t, R, IndexTable(n, index_dr11, index_x2a))

\* a row whose fluxes the cone search returned masked
Known(row) == row.flux # "F_masked"

\* a threshold that leaves the rows of masked fluxes out
thresholdDropping(t) ==
    IF SelectSeq(t, Known) = <<>> THEN [err |-> "ValueError", table |-> t]
    ELSE [err |-> "", table |-> SelectSeq(t, Known)]

\* CompareCatalog.threshold: the masked entries of the flux columns become
\* the column's minimum, np.min over the entries that are not masked; np.min
\* of an empty list raises ValueError.  The rows and their other columns stay.
threshold(t) ==
    LET Fill(row) == IF Known(row) THEN row ELSE [row EXCEPT !.flux = "F_min"]
    IN  IF SelectSeq(t, Known) = <<>> THEN [err |-> "ValueError", table |-> t]
        ELSE [err |-> "", table |-> [i \in 1..Len(t) |-> Fill(t[i])]]

\* an estimator that fits every Chandra source, whatever powlaw_gamma holds
photon_index_nh_always_fitted(t) ==
    LET R == [i \in 1..Len(t) |->
                LET o == optimization("CS_Chandra", t[i]) IN
                [err |-> o.err,
                 g   |-> IF o.photon_index > 0 THEN o.photon_index ELSE default_photon_index,
                 nh  |-> IF t[i].nh_gal # 0 THEN t[i].nh_gal ELSE default_nh,
                 fit |-> TRUE]]
    IN  LoopResult(t, R, NoTable)

\* CompareCatalog.photon_index_nh_for_csc
photon_index_nh_for_csc(t) ==
    LET R == [i \in 1..Len(t) |->
                LET o == optimization("CS_Chandra", t[i]) IN
                [err |-> IF t[i].powlaw_gamma # 0 THEN "" ELSE o.err,
                 g   |-> IF t[i].powlaw_gamma # 0 THEN t[i].powlaw_gamma
                         ELSE IF o.photon_index > 0 THEN o.photon_index
                         ELSE default_photon_index,
                 nh  |-> IF t[i].nh_gal # 0 THEN t[i].nh_gal ELSE default_nh,
                 fit |-> t[i].powlaw_gamma = 0]]
    IN  LoopResult(t, R, NoTable)

\* CompareCatalog.photon_index_nh_for_other_catalog
photon_index_nh_for_other_catalog(k, t) ==
    LET R == [i \in 1..Len(t) |->
                LET o == optimization(k, t[i]) IN
                [err |-> o.err,
                 g   |-> IF o.photon_index > 0 THEN o.photon_index ELSE default_photon_index,
                 nh  |-> default_nh,
                 fit |-> TRUE]]
    IN  LoopResult(t, R, NoTable)

\* the NHI of the first row of the sky map, wherever the source is
FirstNhi(row) == nh_dictionnary[1].NHI

\* the NHI of the sky-map row nearest to the row in RA/Dec (np.argmin: the
\* first of the nearest)
NearestNhi(row) ==
    LET d(i) == (nh_dictionnary[i].RA2000 - row.ra) * (nh_dictionnary[i].RA2000 - row.ra)
              + (nh_dictionnary[i].DEC2000 - row.dec) * (nh_dictionnary[i].DEC2000 - row.dec)
        best == CHOOSE i \in 1..Len(nh_dictionnary) :
                    /\ \A j \in 1..Len(nh_dictionnary) : d(i) <= d(j)
                    /\ \A j \in 1..(i-1) : d(j) > d(i)
    IN  nh_dictionnary[best].NHI

\* XmmCatalog.get_phoindex_nh on the nearby table t.  The branch that reads
\* Xmm2Athena is switched off (i = 0; if i == 1), so every source is fitted.
get_phoindex_nh(t) ==
    LET n          == Len(t)
        names      == Column(t, "name")
        HasSrcid(row) == row.SRCID # 0
        name_list  == Column(SelectSeq(t, HasSrcid), "name")
        m          == Len(name_list)
        found      == NamesFound(name_list)
        index_dr11 == NumpyArray([i \in 1..m |->
                        IF name_list[i] \in Range(found)
                        THEN IntV(PositionInDr11(name_list[i])) ELSE NaN])
        index_x2a  == IndexX2a(found)
        \* the first loop reads row number of the table for name number
        first == [i \in 1..m |->
                    LET o == optim_index(t[i]) IN
                    [err |-> o.err, g |-> o.photon_index, nh |-> NearestNhi(t[i]),
                     fit |-> TRUE, row |-> i]]
        NotListed(nm) == nm \notin Range(name_list)
        added == IF m # n THEN SelectSeq(names, NotListed) ELSE <<>>
        \* the second loop reads the position of row number, the last of the
        \* first loop, and fits the row index
        second == [j \in 1..Len(added) |->
                    LET index == IndexOf(names, added[j]) + 1
                        o     == optim_index(t[index])
                    IN  IF m = 0
                        THEN [err |-> "UnboundLocalError", g |-> 0, nh |-> 0,
                              fit |-> FALSE, row |-> index]
                        ELSE [err |-> o.err, g |-> o.photon_index, nh |-> NearestNhi(t[m]),
                              fit |-> TRUE, row |-> index]]
        steps == first \o second
        e     == FirstError(steps, Len(steps))
        it    == IndexTable(m, index_dr11, index_x2a)
        fits  == { steps[i].row : i \in { j \in 1..Len(steps) : e = 0 \/ j <= e } }
    IN  IF ~ColumnsAgree({m, Len(index_dr11), Len(index_x2a)})
        THEN Failed(t, "ValueError")
        ELSE IF e # 0
        THEN [err |-> steps[e].err, table |-> t, index_table |-> it, fits |-> fits]
        \* visualization_interp reads photon_index[item] for every fit, and
        \* photon_index holds the first loop's values alone
        ELSE IF Len(added) # 0
        THEN [err |-> "IndexError", table |-> t, index_table |-> it, fits |-> fits]
        \* a column of another length than the table
        ELSE IF Len(steps) # n
        THEN [err |-> "ValueError", table |-> t, index_table |-> it, fits |-> fits]
        ELSE [err |-> "", index_table |-> it, fits |-> fits,
              table |-> [i \in 1..n |->
                           SetNhLimits(SetColumns(t[i], steps[i].g, steps[i].nh),
                                       steps[i].nh, steps[i].nh)]]

-----------------------------------------------------------------------------
(* The estimator stage of __init__. *)

\* where a key stands in [key_1, key_2] (from 1), 0 when it does not
PlaceOf(k) == IF key[1] = k THEN 1 ELSE IF key[2] = k THEN 2 ELSE 0

\* a method returned res for the table at place k, or raised
Returned(res, k, next) ==
    /\ error' = res.err
    /\ pc' = IF res.err = "" THEN next ELSE "error"
    /\ nearby_sources_table' = [nearby_sources_table EXCEPT ![k] = res.table]
    /\ index_table' = IF res.index_table.built THEN res.index_table ELSE index_table
    /\ fit_calls' = fit_calls \cup { <<k, i>> : i \in res.fits }

Skipped(next) ==
    /\ pc' = next
    /\ UNCHANGED <<nearby_sources_table, index_table, fit_calls, error>>

\* if "Xmm_DR13" in [key_1, key_2]: photon_index_nh_for_xmm
XmmBlock ==
    /\ pc = "photon_index_nh_for_xmm"
    /\ LET k == PlaceOf("Xmm_DR13") IN
       IF k # 0
       THEN Returned(photon_index_nh_for_xmm(nearby_sources_table[k]), k,
                     "photon_index_nh_for_csc")
       ELSE Skipped("photon_index_nh_for_csc")
    /\ UNCHANGED <<Inputs, small_table, OptimizerVars, ClassifierVars, SpectraVars>>

\* if "CSC_2.0" in [key_1, key_2]: threshold, photon_index_nh_for_csc
CscBlock ==
    /\ pc = "photon_index_nh_for_csc"
    /\ LET k == PlaceOf("CSC_2.0") IN
       IF k # 0
       THEN LET th == threshold(nearby_sources_table[k]) IN
            Returned(IF th.err # "" THEN Failed(nearby_sources_table[k], th.err)
                     ELSE photon_index_nh_for_csc(th.table), k,
                     "photon_index_nh_for_swift")
       ELSE Skipped("photon_index_nh_for_swift")
    /\ UNCHANGED <<Inputs, small_table, OptimizerVars, ClassifierVars, SpectraVars>>

\* if "Swift" in [key_1, key_2]: photon_index_nh_for_other_catalog
SwiftBlock ==
    /\ pc = "photon_index_nh_for_swift"
    /\ LET k == PlaceOf("Swift") IN
       IF k # 0
       THEN Returned(photon_index_nh_for_other_catalog("Swift", nearby_sources_table[k]), k,
                     "photon_index_nh_for_erass1")
       ELSE Skipped("photon_index_nh_for_erass1")
    /\ UNCHANGED <<Inputs, small_table, OptimizerVars, ClassifierVars, SpectraVars>>

\* if "eRASS1" in [key_1, key_2]: photon_index_nh_for_other_catalog
ErassBlock ==
    /\ pc = "photon_index_nh_for_erass1"
    /\ LET k == PlaceOf("eRASS1") IN
       IF k # 0
       THEN Returned(photon_index_nh_for_other_catalog("eRASS1", nearby_sources_table[k]), k,
                     "neighbourhood_of_object")
       ELSE Skipped("neighbourhood_of_object")
    /\ UNCHANGED <<Inputs, small_table, OptimizerVars, ClassifierVars, SpectraVars>>

\* XmmCatalog.__init__: self.get_phoindex_nh()
XmmGetPhoindexNh ==
    /\ pc = "get_phoindex_nh"
    /\ Returned(get_phoindex_nh(nearby_sources_table[1]), 1, "variability_table")
    /\ UNCHANGED <<Inputs, small_table, OptimizerVars, ClassifierVars, SpectraVars>>

Estimator == XmmBlock \/ CscBlock \/ SwiftBlock \/ ErassBlock \/ XmmGetPhoindexNh

-----------------------------------------------------------------------------
(* CompareCatalog.__init__ between the estimators and the optimizer. *)

\* the if/elif chain of neighbourhood_of_object on the keys: it names the
\* position columns of a pair with Xmm_DR13 or CSC_2.0 in it, and a pair
\* of Swift and eRASS1 is in no branch
HasPlotColumns(kk) == ~(IsOther(kk[1]) /\ IsOther(kk[2]))

\* self.neighbourhood_of_object(...): the plot of the two fields, or
\* print("Invalid key !") and sys.exit()
NeighbourhoodOfObject ==
    /\ cls = "CompareCatalog"
    /\ pc = "neighbourhood_of_object"
    /\ pc' = IF HasPlotColumns(key) THEN "dictionary_model" ELSE "exit"
    /\ UNCHANGED <<error, Inputs, small_table, nearby_sources_table, EstimatorVars,
                   OptimizerVars, ClassifierVars, SpectraVars>>

\* self.dictionary_model(...): a power-law model per row, read by count_rate
DictionaryModel ==
    /\ cls = "CompareCatalog"
    /\ pc = "dictionary_model"
    /\ pc' = "count_rate"
    /\ UNCHANGED <<error, Inputs, small_table, nearby_sources_table, EstimatorVars,
                   OptimizerVars, ClassifierVars, SpectraVars>>

\* count_rate: table["count_rate"] = the rate PIMMS gives for the row
WithCountRate(row, rate) ==
    [f \in DOMAIN row \cup {"count_rate"} |-> IF f = "count_rate" THEN rate ELSE row[f]]

\* the count rates PIMMS predicts for a source: a faint and a bright one
PimmsRates == {1, 50}

\* self.count_rate(): table["count_rate"] = the rates PIMMS predicts
CountRate ==
    /\ cls = "CompareCatalog"
    /\ pc = "count_rate"
    /\ \E r1 \in [1..Len(nearby_sources_table[1]) -> PimmsRates] :
       \E r2 \in [1..Len(nearby_sources_table[2]) -> PimmsRates] :
          LET ct == <<r1, r2>> IN
          /\ count_rates' = ct
          /\ nearby_sources_table' =
                [k \in 1..2 |-> [i \in 1..Len(nearby_sources_table[k]) |->
                    WithCountRate(nearby_sources_table[k][i], ct[k][i])]]
    /\ pc' = "calculate_opti_point"
    /\ UNCHANGED <<error, Inputs, small_table, EstimatorVars, vector_dictionary,
                   OptimalPointingIdx, SRCoptimalSEPAR, SRCoptimalRATES, ClassifierVars, SpectraVars>>

-----------------------------------------------------------------------------
(* GeometryKit: separations, vignetting and the signal-to-noise ratio. *)

ISqrt(n) == CHOOSE r \in 0..n : r * r <= n /\ (r + 1) * (r + 1) > n

\* c_f.ang_separation(a, b).arcmin, to the arcminute below
ang_separation(a, b) == ISqrt(SeparationSq(a, b))

\* np.interp(x, xp, fp): linear between the points of the curve, the end
\* values outside it
Interp(x, xp, fp) ==
    IF x <= xp[1] THEN fp[1]
    ELSE IF x >= xp[Len(xp)] THEN fp[Len(fp)]
    ELSE LET j == CHOOSE i \in 1..(Len(xp) - 1) : xp[i] <= x /\ x < xp[i + 1]
         IN  fp[j] + ((fp[j + 1] - fp[j]) * (x - xp[j])) \div (xp[j + 1] - xp[j])

\* c_f.scaled_ct_rate: the count rate times the relative effective area at
\* the separation
scaled_ct_rate(sep, rate, EffArea, OffAxisAngle) == rate * Interp(sep, OffAxisAngle, EffArea)

\* the ratio without the test of its denominator
RatioUnguarded(target, sources, background, exposure) ==
    [num |-> target * target * exposure, den |-> target + sources + background]

\* c_f.signal_to_noise: target * sqrt(exposure) / sqrt(target + sources +
\* background), 0 when the denominator is 0.  The value is kept as the
\* fraction num/den that is its square, so that the order of two values is
\* the exact order of the ratios.
signal_to_noise(target, sources, background, exposure) ==
    IF target + sources + background = 0 THEN [num |-> 0, den |-> 1]
    ELSE [num |-> target * target * exposure, den |-> target + sources + background]

SnrLeq(a, b) == a.num * b.den <= b.num * a.den
SnrEq(a, b)  == a.num * b.den = b.num * a.den

-----------------------------------------------------------------------------
(* PointingOptimizer: calculate_opti_point. *)

\* the grid reaches GridHalf steps below the target
GridHalf == 1

\* min_value, max_value, step = -7.0, 7.1, 0.05: in steps, from -140 to 142,
\* the end of np.arange being left out
min_value == -GridHalf
max_value == GridHalf + 2

\* np.arange(min_value, max_value, step), one step being one arcminute here
DeltaRA  == [i \in 1..(max_value - min_value) |-> min_value + (i - 1)]
DeltaDEC == [i \in 1..(max_value - min_value) |-> min_value + (i - 1)]

GridSize == Len(DeltaRA) * Len(DeltaDEC)
GridIdx  == 0..(GridSize - 1)

\* np.meshgrid(DeltaRA, DeltaDEC) flattened: the RA offset runs fastest
SampleRA(idx)  == object_position.ra + DeltaRA[(idx % Len(DeltaRA)) + 1]
SampleDEC(idx) == object_position.dec + DeltaDEC[(idx \div Len(DeltaRA)) + 1]
NICERpointing(idx) == [ra |-> SampleRA(idx), dec |-> SampleDEC(idx)]

RECURSIVE SumSeq(_)
SumSeq(s) == IF s = <<>> THEN 0 ELSE Head(s) + SumSeq(Tail(s))

EffArea      == simulation_data.telescop_data.EffArea
OffAxisAngle == simulation_data.telescop_data.OffAxisAngle

\* PSRcountrateScaled[item]
PSRrates(idx) ==
    scaled_ct_rate(ang_separation(object_position, NICERpointing(idx)),
                   simulation_data.count_rate, EffArea, OffAxisAngle)

\* the sum over the rows of the two tables together
SRCratesOfBothTables(k, idx) ==
    LET t == nearby_sources_table[1] \o nearby_sources_table[2] IN
    SumSeq([i \in 1..Len(t) |->
        scaled_ct_rate(ang_separation(t[i], NICERpointing(idx)), t[i].count_rate,
                       EffArea, OffAxisAngle)])

\* the sum over the rows that the master source table does not name
SRCratesOfInvariable(k, idx) ==
    LET t   == nearby_sources_table[k]
        col == IF key[k] = "CSC_2.0" THEN "Chandra"
               ELSE IF key[k] = "Xmm_DR13" THEN "XMM" ELSE key[k]
        Named(i) == \E j \in 1..Len(master_source_cone) :
                        master_source_cone[j][col] = t[i].name
    IN  SumSeq([i \in 1..Len(t) |->
            IF Named(i) THEN 0
            ELSE scaled_ct_rate(ang_separation(t[i], NICERpointing(idx)), t[i].count_rate,
                                EffArea, OffAxisAngle)])

\* SRCrates_k[item] = np.sum(SRCcountrateScaled_k[item]): every row of the table
SRCrates(k, idx) ==
    LET t == nearby_sources_table[k] IN
    SumSeq([i \in 1..Len(t) |->
        scaled_ct_rate(ang_separation(t[i], NICERpointing(idx)), t[i].count_rate,
                       EffArea, OffAxisAngle)])

\* SNR_k, from index 0
SNR(k) ==
    [i \in 1..GridSize |->
        signal_to_noise(PSRrates(i - 1), SRCrates(k, i - 1),
                        simulation_data.INSTbkgd, simulation_data.EXPtime)]

\* the last of the cells that hold the maximum
LastOfMax(snr) ==
    CHOOSE idx \in GridIdx :
        /\ \A j \in GridIdx : SnrLeq(snr[j + 1], snr[idx + 1])
        /\ \A j \in (idx + 1)..(GridSize - 1) : ~SnrEq(snr[j + 1], snr[idx + 1])

\* the first of the cells that hold the minimum
FirstOfMin(snr) ==
    CHOOSE idx \in GridIdx :
        /\ \A j \in GridIdx : SnrLeq(snr[idx + 1], snr[j + 1])
        /\ \A j \in 0..(idx - 1) : ~SnrEq(snr[j + 1], snr[idx + 1])

\* np.where(SNR == max(SNR))[0][0]
FirstOfMax(snr) ==
    CHOOSE idx \in GridIdx :
        /\ \A j \in GridIdx : SnrLeq(snr[j + 1], snr[idx + 1])
        /\ \A j \in 0..(idx - 1) : ~SnrEq(snr[j + 1], snr[idx + 1])

\* the separations of the sources of table k from a pointing, and their rates
SeparationsFrom(k, p) ==
    LET t == nearby_sources_table[k] IN [i \in 1..Len(t) |-> ang_separation(t[i], p)]

RatesAt(k, separ) ==
    [i \in 1..Len(separ) |-> scaled_ct_rate(separ[i], count_rates[k][i], EffArea, OffAxisAngle)]

\* the pointing the optimal separations of table k are taken from: for the
\* second table the code reads SampleRA[OptimalPointingIdx_1]
OptimalRaIdx(k, idx1, idx2) == idx1
OptimalDecIdx(k, idx1, idx2) == IF k = 1 THEN idx1 ELSE idx2

CalculateOptiPoint ==
    /\ pc = "calculate_opti_point"
    /\ LET snr  == <<SNR(1), SNR(2)>>
           idx1 == FirstOfMax(snr[1])
           idx2 == FirstOfMax(snr[2])
           sep  == [k \in 1..2 |->
                      SeparationsFrom(k, [ra  |-> SampleRA(OptimalRaIdx(k, idx1, idx2)),
                                          dec |-> SampleDEC(OptimalDecIdx(k, idx1, idx2))])]
           rate == [k \in 1..2 |-> RatesAt(k, sep[k])]
           \* PSRrates is filled again by the second loop, and both
           \* dictionaries hold SRCrates_2
           dict == [k \in 1..2 |->
                      [SampleRA  |-> [i \in 1..GridSize |-> SampleRA(i - 1)],
                       SampleDEC |-> [i \in 1..GridSize |-> SampleDEC(i - 1)],
                       PSRrates  |-> [i \in 1..GridSize |-> PSRrates(i - 1)],
                       SRCrates_2 |-> [i \in 1..GridSize |-> SRCrates(2, i - 1)],
                       SRCoptimalRATES |-> rate[k],
                       SNR |-> snr[k]]]
       IN  /\ vector_dictionary' = dict
           /\ OptimalPointingIdx' = <<idx1, idx2>>
           /\ SRCoptimalSEPAR' = sep
           /\ SRCoptimalRATES' = rate
    /\ pc' = "vignetting_factor"
    /\ UNCHANGED <<error, Inputs, small_table, nearby_sources_table, EstimatorVars,
                   count_rates, ClassifierVars, SpectraVars>>

-----------------------------------------------------------------------------
(* VariabilityClassifier: the variable sources of a nearby-sources table. *)

\* c_f.vignetting_factor: the relative effective area of each source at its
\* separation from the optimal pointing, as a column of the table
WithVignetting(row, v) ==
    [f \in DOMAIN row \cup {"vignetting_factor"} |->
        IF f = "vignetting_factor" THEN v ELSE row[f]]

VignettingFactor ==
    /\ cls = "CompareCatalog"
    /\ pc = "vignetting_factor"
    /\ nearby_sources_table' =
          [k \in 1..2 |-> [i \in 1..Len(nearby_sources_table[k]) |->
              WithVignetting(nearby_sources_table[k][i],
                             Interp(SRCoptimalSEPAR[k][i], OffAxisAngle, EffArea))]]
    /\ pc' = "variability_table"
    /\ UNCHANGED <<error, Inputs, small_table, EstimatorVars, OptimizerVars, ClassifierVars, SpectraVars>>

\* a row of the master source table: the name of the master source in each
\* catalog family, "" in the families that do not hold it
MasterRow(x, c, s, e) == [XMM |-> x, Chandra |-> c, Swift |-> s, eRASS1 |-> e]

\* variability_index: the column of the master table a key reads
MasterColumn(k) ==
    IF k = "CSC_2.0" THEN "Chandra" ELSE IF k = "Xmm_DR13" THEN "XMM" ELSE k

\* CompareCatalog.variability_index: for each name of the master column that
\* the table holds, list(...).index(name)
variability_index(k, t) ==
    LET NotEmpty(nm) == nm # ""
        msc_name     == SelectSeq(Column(master_source_cone, MasterColumn(k)), NotEmpty)
        names        == Column(t, "name")
        InTable(nm)  == nm \in Range(names)
        hits         == SelectSeq(msc_name, InTable)
    IN  [i \in 1..Len(hits) |-> IndexOf(names, hits[i])]

\* CompareCatalog.variability_table: STILTS writes the master tables of the
\* field; the method returns the path of the master source table
VariabilityTable ==
    /\ cls = "CompareCatalog"
    /\ pc = "variability_table"
    /\ pc' = "variability_index"
    /\ UNCHANGED <<error, Inputs, small_table, nearby_sources_table, EstimatorVars,
                   OptimizerVars, ClassifierVars, SpectraVars>>

\* self.var_index_1 = self.variability_index(key_1, ...), and var_index_2
VariabilityIndex ==
    /\ cls = "CompareCatalog"
    /\ pc = "variability_index"
    /\ var_index' = [k \in 1..2 |->
                       [set |-> TRUE, idx |-> variability_index(key[k], nearby_sources_table[k])]]
    /\ pc' = "write_fits_table"
    /\ UNCHANGED <<error, Inputs, small_table, nearby_sources_table, EstimatorVars,
                   OptimizerVars, variability_table, invar, SpectraVars>>

\* a value that is not NaN
IsDefined(x) == x # NaN

\* the integer an index column holds at an entry, among 0..n
IndexValue(x, n) == CHOOSE i \in 0..n : ToString(i) = x.v

\* XmmCatalog.variability_table: the rows with a SRCID whose DR11 row has a
\* SC_FVAR; the DR11 row is read through the index table
XmmVariabilityRows(t) ==
    LET Dr11Of(i)   == xmm_dr11_table[IndexValue(index_table.rows[i].dr11,
                                                 Len(xmm_dr11_table)) + 1]
        Variable(i) == t[i].SRCID # 0 /\ IsDefined(Dr11Of(i).SC_FVAR)
        order       == SelectSeq([i \in 1..Len(t) |-> i], Variable)
    IN  [j \in 1..Len(order) |->
            [INDEX   |-> index_table.rows[order[j]].src,
             IAUNAME |-> t[order[j]].name,
             ra      |-> t[order[j]].ra,
             dec     |-> t[order[j]].dec,
             SC_FVAR |-> t[order[j]].SC_FVAR,
             IN_X2A  |-> PyNotEqual(index_table.rows[order[j]].x2a, NoDataFound)]]

XmmVariabilityTable ==
    /\ cls = "XmmCatalog"
    /\ pc = "variability_table"
    /\ variability_table' = XmmVariabilityRows(nearby_sources_table[1])
    /\ pc' = "neighbourhood_of_object"
    /\ UNCHANGED <<error, Inputs, small_table, nearby_sources_table, EstimatorVars,
                   OptimizerVars, var_index, invar, SpectraVars>>

\* XmmCatalog.neighbourhood_of_object: the coordinates of the invariable
\* sources are the RA that no variable source has, and the Dec likewise
InvarRa(t, vt) ==
    LET Keep(v) == v \notin Range(Column(vt, "ra")) IN SelectSeq(Column(t, "ra"), Keep)
InvarDec(t, vt) ==
    LET Keep(v) == v \notin Range(Column(vt, "dec")) IN SelectSeq(Column(t, "dec"), Keep)

\* axes_1.scatter(invar_ra, invar_dec) raises when the two differ in length
XmmNeighbourhoodOfObject ==
    /\ cls = "XmmCatalog"
    /\ pc = "neighbourhood_of_object"
    /\ LET ra  == InvarRa(nearby_sources_table[1], variability_table)
           dec == InvarDec(nearby_sources_table[1], variability_table)
       IN  /\ invar' = [set |-> TRUE, ra |-> ra, dec |-> dec]
           /\ error' = IF Len(ra) = Len(dec) THEN "" ELSE "ValueError"
           /\ pc' = IF Len(ra) = Len(dec) THEN "dictionary_model" ELSE "error"
    /\ UNCHANGED <<Inputs, small_table, nearby_sources_table, EstimatorVars,
                   OptimizerVars, var_index, variability_table, SpectraVars>>

Classifier ==
    \/ VignettingFactor \/ VariabilityTable \/ VariabilityIndex
    \/ XmmVariabilityTable \/ XmmNeighbourhoodOfObject

-----------------------------------------------------------------------------
(* SpectrumAggregator: the spectra of the sources and their envelope.  A    *)
(* spectrum is a matrix, a row per realization and a column per energy bin. *)
(* A median is kept as twice its value, so that the mean of the two middle  *)
(* realizations is an integer.                                              *)

\* CompareCatalog.write_fits_table: table.write(...) stands inside the
\* branch of the key "eRASS1"; for another key the method builds the path
\* and returns.  The names of the eRASS1 table are padded to the length of
\* the longest, which leaves names of one length as they are.
write_fits_table(k) == IF k = "eRASS1" THEN {k} ELSE {}

\* self.write_fits_table(...) for the two tables
WriteFitsTable ==
    /\ cls = "CompareCatalog"
    /\ pc = "write_fits_table"
    /\ fits_files' = fits_files \cup write_fits_table(key[1]) \cup write_fits_table(key[2])
    /\ pc' = "modeling_source_spectra"
    /\ UNCHANGED <<error, Inputs, small_table, nearby_sources_table, EstimatorVars,
                   OptimizerVars, ClassifierVars, total_spectra, total_var_spectra, data>>

\* fakeit_for_multiple_parameters: the realizations jaxspec draws for the
\* model of a source, four of them over two energy bins
fakeit(row) ==
    IF row.name = "J1" THEN << <<1, 2>>, <<3, 1>>, <<2, 3>>, <<6, 0>> >>
    ELSE << <<4, 0>>, <<0, 4>>, <<2, 2>>, <<1, 5>> >>

\* spectra = fakeit_for_multiple_parameters(...) * vignet_factor
SpectraOf(t) ==
    [i \in 1..Len(t) |->
        [r \in 1..Len(fakeit(t[i])) |->
            [b \in 1..Len(fakeit(t[i])[r]) |-> fakeit(t[i])[r][b] * t[i].vignetting_factor]]]

\* a list of variable spectra that holds every spectrum of the table twice
VarSpectraRepeated(t, idx) == SpectraOf(t) \o SpectraOf(t)

\* the spectra of the rows whose index is in the list idx
VarSpectraOf(t, idx) ==
    LET InIdx(i) == (i - 1) \in Range(idx)
        order    == SelectSeq([i \in 1..Len(t) |-> i], InIdx)
    IN  [j \in 1..Len(order) |-> SpectraOf(t)[order[j]]]

\* CompareCatalog.modeling_source_spectra: both loops test "index in
\* self.var_index_1"
ModelingSourceSpectra ==
    /\ cls = "CompareCatalog"
    /\ pc = "modeling_source_spectra"
    /\ total_spectra' = [k \in 1..2 |-> SpectraOf(nearby_sources_table[k])]
    /\ total_var_spectra' =
          [k \in 1..2 |-> VarSpectraOf(nearby_sources_table[k], var_index[1].idx)]
    /\ pc' = "total_spectra_plot"
    /\ UNCHANGED <<error, Inputs, small_table, nearby_sources_table, EstimatorVars,
                   OptimizerVars, ClassifierVars, data, fits_files>>

\* spectrum_summed += spectra[index], on a list that is not empty
SpectrumSummed(list) ==
    [r \in 1..Len(list[1]) |->
        [b \in 1..Len(list[1][r]) |-> SumSeq([i \in 1..Len(list) |-> list[i][r][b]])]]

\* the k-th smallest of the values of s
KthSmallest(s, k) ==
    CHOOSE v \in Range(s) :
        /\ Cardinality({ i \in 1..Len(s) : s[i] < v }) < k
        /\ Cardinality({ i \in 1..Len(s) : s[i] <= v }) >= k

\* twice np.median of the values of s
Median2(s) ==
    IF Len(s) % 2 = 1 THEN 2 * KthSmallest(s, (Len(s) + 1) \div 2)
    ELSE KthSmallest(s, Len(s) \div 2) + KthSmallest(s, Len(s) \div 2 + 1)

\* twice np.median(spectrum, axis=0): the median over the realizations, per bin
MedianAxis0(sp) ==
    [b \in 1..Len(sp[1]) |-> Median2([r \in 1..Len(sp) |-> sp[r][b]])]

\* the dictionary total_spectra_plot returns for one catalog
Envelope(total, var) ==
    LET counts == MedianAxis0(SpectrumSummed(total))
        v      == MedianAxis0(SpectrumSummed(var))
    IN  [Counts |-> counts,
         Upper_limit |-> [b \in 1..Len(counts) |-> counts[b] + v[b]],
         Lower_limit |-> [b \in 1..Len(counts) |-> counts[b] - v[b]]]

\* CompareCatalog.total_spectra_plot: the sum over an empty list is the float
\* 0.0, and np.median(0.0, axis=0) raises AxisError
TotalSpectraPlot ==
    /\ cls = "CompareCatalog"
    /\ pc = "total_spectra_plot"
    /\ IF \E k \in 1..2 : total_spectra[k] = <<>> \/ total_var_spectra[k] = <<>>
       THEN /\ error' = "AxisError"
            /\ pc' = "error"
            /\ UNCHANGED data
       ELSE /\ data' = [k \in 1..2 |-> Envelope(total_spectra[k], total_var_spectra[k])]
            /\ pc' = "write_txt_file"
            /\ UNCHANGED error
    /\ UNCHANGED <<Inputs, small_table, nearby_sources_table, EstimatorVars,
                   OptimizerVars, ClassifierVars, total_spectra, total_var_spectra,
                   fits_files>>

Aggregator == WriteFitsTable \/ ModelingSourceSpectra \/ TotalSpectraPlot

-----------------------------------------------------------------------------
(* The runs from the opening of the catalogs. *)

\* the two auxiliary catalogs and the sky map of the runs that vary the field
Dr11Small == << [IAUNAME |-> "J1", DETID |-> 7, SC_FVAR |-> Fvar("J1")] >>
X2aSmall  == << [DETID |-> 7, PhoIndex_med |-> 19, logNH_med |-> 21] >>
NhMapSmall == << [RA2000 |-> 0, DEC2000 |-> 0, NHI |-> 5] >>

\* the target's count rate, the vignetting curve, the background and the exposure
Telescope(eff) == [EffArea |-> eff, OffAxisAngle |-> <<0, 1, 2, 3, 4, 5, 6>>]
Simulation(rate, eff, bkgd) ==
    [count_rate |-> rate, telescop_data |-> Telescope(eff), INSTbkgd |-> bkgd, EXPtime |-> 1]
NominalSimulation == Simulation(10, <<10, 9, 8, 7, 6, 4, 2>>, 2)

\* before count_rate and calculate_opti_point have run
NothingOptimized ==
    /\ count_rates = << <<>>, <<>> >>
    /\ vector_dictionary = << <<>>, <<>> >>
    /\ OptimalPointingIdx = << 0, 0 >>
    /\ SRCoptimalSEPAR = << <<>>, <<>> >>
    /\ SRCoptimalRATES = << <<>>, <<>> >>

\* the master source table of the runs that do not vary it
MasterSmall == << MasterRow("J1", "", "J1", "") >>

\* before the classifier has run
NoIndex == [set |-> FALSE, idx |-> <<>>]
NothingClassified ==
    /\ var_index = <<NoIndex, NoIndex>>
    /\ variability_table = <<>>
    /\ invar = [set |-> FALSE, ra |-> <<>>, dec |-> <<>>]
    /\ total_spectra = << <<>>, <<>> >>
    /\ total_var_spectra = << <<>>, <<>> >>
    /\ data = << <<>>, <<>> >>
    /\ fits_files = {}

Init ==
    /\ pc = "find_nearby_sources"
    /\ cls \in {"XmmCatalog", "CompareCatalog"}
    /\ key \in (IF cls = "XmmCatalog" THEN {<<"XMM", "">>} ELSE KeyPairs)
    /\ object_position \in Targets
    /\ radius \in {5}
    /\ table \in TablePairs(FovRows(object_position), key, object_position, radius)
    /\ small_table = << <<>>, <<>> >>
    /\ nearby_sources_table = << <<>>, <<>> >>
    /\ xmm_dr11_table = Dr11Small
    /\ xmm_2_athena_table = X2aSmall
    /\ nh_dictionnary = NhMapSmall
    /\ index_table = NoTable
    /\ fit_calls = {}
    /\ error = ""
    /\ simulation_data = NominalSimulation
    /\ NothingOptimized
    /\ master_source_cone = MasterSmall
    /\ NothingClassified

Next == CompareFindNearbySources \/ XmmFindNearbySources \/ Estimator

Spec == Init /\ [][Next]_vars

-----------------------------------------------------------------------------
(* The runs from the estimator stage: find_nearby_sources has returned. *)

EstTarget == [ra |-> 600, dec |-> 0]

\* the sources of the nearby tables: J1 and J2, both inside the radius
EstRow(n, f, id, g, nh) ==
    IF n = "J1" THEN Row(n, EstTarget, 2, 1, f, id, g, nh)
    ELSE Row(n, EstTarget, -4, 0, f, id, g, nh)

\* the rows a nearby table of the catalog k can hold.  XmmCatalog: SRCID 0
\* is a row the user added.  CSC: powlaw_gamma and nh_gal are 0 where the
\* catalog has no value, the fluxes are masked where it has none.
EstRows(c, k) ==
    IF k = "XMM"
    THEN { EstRow(n, f, id, 0, 0) : n \in {"J1", "J2"}, f \in {"F_raise", "F_neg", "F_pos"},
                                     id \in {0, 1} }
    ELSE IF k = "Xmm_DR13"
    THEN { EstRow(n, f, 1, 0, 0) : n \in {"J1", "J2"},
                                    f \in {"F_raise", "F_neg", "F_zero", "F_pos"} }
    ELSE IF k = "CSC_2.0"
    THEN { EstRow("J1", "F_pos", 0, 15, 2), EstRow("J1", "F_pos", 0, 15, 0),
           EstRow("J1", "F_masked", 0, 0, 0),
           EstRow("J2", "F_pos", 0, 0, 2), EstRow("J2", "F_neg", 0, 0, 0),
           EstRow("J2", "F_raise", 0, 0, 0) }
    ELSE IF k = ""
    THEN {}
    ELSE { EstRow(n, f, 0, 0, 0) : n \in {"J1", "J2"}, f \in {"F_raise", "F_neg", "F_pos"} }

\* what find_nearby_sources returns: XmmCatalog a table that is not empty,
\* the rows of the user last; Swift and eRASS1 a table that is not empty,
\* one row per name
IsNearbyTable(c, k, t) ==
    /\ k = "XMM" =>
          /\ t # <<>>
          /\ \A i \in 1..Len(t) : \A j \in 1..Len(t) :
                (t[i].SRCID = 0 /\ i < j) => t[j].SRCID = 0
    /\ IsOther(k) =>
          /\ t # <<>>
          /\ \A i \in 1..Len(t) : \A j \in 1..Len(t) : t[i].name = t[j].name => i = j

NearbyPairs(c, kk) ==
    { tt \in SeqsUpTo(EstRows(c, kk[1]), MaxRows) \X SeqsUpTo(EstRows(c, kk[2]), MaxRows) :
        /\ Len(tt[1]) + Len(tt[2]) <= MaxRows
        /\ \A k \in 1..2 : IsNearbyTable(c, kk[k], tt[k]) }

\* the DR11 catalog and the Xmm2Athena catalog of the estimator runs
Dr11Tables ==
    { <<>>, << [IAUNAME |-> "J1", DETID |-> 7, SC_FVAR |-> Fvar("J1")] >>,
      << [IAUNAME |-> "J2", DETID |-> 5, SC_FVAR |-> Fvar("J2")], [IAUNAME |-> "J1", DETID |-> 7, SC_FVAR |-> Fvar("J1")] >> }
X2aTables ==
    { <<>>, << [DETID |-> 7, PhoIndex_med |-> 19, logNH_med |-> 21] >>,
      << [DETID |-> 5, PhoIndex_med |-> 10, logNH_med |-> 20],
         [DETID |-> 7, PhoIndex_med |-> 19, logNH_med |-> 21] >> }
NhMapEst ==
    << [RA2000 |-> 602, DEC2000 |-> 1, NHI |-> 5], [RA2000 |-> 596, DEC2000 |-> 0, NHI |-> 8] >>

InitEst ==
    /\ cls \in {"XmmCatalog", "CompareCatalog"}
    /\ key \in (IF cls = "XmmCatalog" THEN {<<"XMM", "">>} ELSE KeyPairs)
    /\ pc = IF cls = "XmmCatalog" THEN "get_phoindex_nh" ELSE "photon_index_nh_for_xmm"
    /\ object_position = EstTarget
    /\ radius = 5
    /\ nearby_sources_table \in NearbyPairs(cls, key)
    /\ table = nearby_sources_table
    /\ small_table = [k \in 1..2 |-> IF key[k] = "CSC_2.0" THEN <<>> ELSE table[k]]
    /\ xmm_dr11_table \in (IF key[1] \in {"XMM", "Xmm_DR13"} \/ key[2] = "Xmm_DR13"
                           THEN Dr11Tables ELSE {Dr11Small})
    /\ xmm_2_athena_table \in (IF key[1] \in {"XMM", "Xmm_DR13"} \/ key[2] = "Xmm_DR13"
                               THEN X2aTables ELSE {X2aSmall})
    /\ nh_dictionnary = NhMapEst
    /\ index_table = NoTable
    /\ fit_calls = {}
    /\ error = ""
    /\ simulation_data = NominalSimulation
    /\ NothingOptimized
    /\ master_source_cone = MasterSmall
    /\ NothingClassified

NextEst == Estimator

SpecEst == InitEst /\ [][NextEst]_vars

-----------------------------------------------------------------------------
(* The runs from the optimizer: the estimators and count_rate have returned. *)

\* the sources of the optimizer runs, <<RA offset, Dec offset, count rate>>: a
\* faint or a bright source north of the target, a bright one east or west
OptSources == { <<0, 2, 1>>, <<0, 2, 50>>, <<3, 0, 50>>, <<-3, 0, 50>> }

\* the catalog row of a source: in DR11, of positive fitted photon index
OptRow(src) == Row("J1", EstTarget, src[1], src[2], "F_pos", 1, 0, 0)

\* the vignetting curve, in tenths of the on-axis effective area: flat
\* within an arcminute of the axis, or falling from the axis on
EffAreaCurves == { <<10, 10, 9, 8, 6, 4, 2>>, <<10, 9, 8, 7, 6, 4, 2>> }

\* the count rates are in counts per second, the scaled rates and the
\* background in tenths of it
Simulations ==
    { Simulation(rate, eff, bkgd) : rate \in {0, 10}, eff \in EffAreaCurves, bkgd \in {0, 2} }

InitOpt ==
    /\ pc = "calculate_opti_point"
    /\ cls = "CompareCatalog"
    /\ key = <<"Xmm_DR13", "CSC_2.0">>
    /\ object_position = EstTarget
    /\ radius = 5
    /\ xmm_dr11_table = Dr11Small
    /\ xmm_2_athena_table = <<>>
    /\ nh_dictionnary = NhMapEst
    /\ error = ""
    /\ simulation_data \in Simulations
    /\ \E src \in SeqsUpTo(OptSources, MaxRows) \X SeqsUpTo(OptSources, MaxRows) :
          /\ Len(src[1]) + Len(src[2]) <= MaxRows
          /\ table = [k \in 1..2 |-> [i \in 1..Len(src[k]) |-> OptRow(src[k][i])]]
          /\ small_table = <<table[1], <<>>>>
          \* the tables as the estimators and count_rate have left them:
          \* threshold has returned the Chandra table
          /\ threshold(table[2]).err = ""
          /\ LET est == <<photon_index_nh_for_xmm(table[1]),
                          photon_index_nh_for_csc(threshold(table[2]).table)>>
             IN  /\ nearby_sources_table =
                       [k \in 1..2 |-> [i \in 1..Len(src[k]) |->
                           WithCountRate(est[k].table[i], src[k][i][3])]]
                 /\ index_table = est[1].index_table
                 /\ fit_calls = { c \in (1..2) \X (1..MaxRows) : c[2] \in est[c[1]].fits }
          /\ count_rates = [k \in 1..2 |-> [i \in 1..Len(src[k]) |-> src[k][i][3]]]
    /\ vector_dictionary = << <<>>, <<>> >>
    /\ OptimalPointingIdx = << 0, 0 >>
    /\ SRCoptimalSEPAR = << <<>>, <<>> >>
    /\ SRCoptimalRATES = << <<>>, <<>> >>
    /\ master_source_cone = MasterSmall
    /\ NothingClassified

NextOpt == CalculateOptiPoint

SpecOpt == InitOpt /\ [][NextOpt]_vars

-----------------------------------------------------------------------------
(* The whole of __init__, from the opening of the catalogs to the spectra. *)

\* the rows of the catalogs: J1, J2 at the right ascension of J1, and a row
\* outside the field
RunRows ==
    { Row("J1", EstTarget, 2, 1, "F_pos", 1, 0, 0),
      Row("J2", EstTarget, 2, -3, "F_pos", 1, 0, 0),
      Row("J2", EstTarget, 0, 11, "F_pos", 1, 0, 0) }

\* a Chandra row of J2 with masked fluxes
MaskedRow == Row("J2", EstTarget, 2, -3, "F_masked", 1, 0, 0)

\* a run of three rows: two sources in the first catalog, the first of them
\* in the second catalog too
ThreeRowTables(kk) ==
    IF kk = <<"Xmm_DR13", "Swift">>
    THEN { << << Row("J1", EstTarget, 2, 1, "F_pos", 1, 0, 0),
                 Row("J2", EstTarget, 2, -3, "F_pos", 1, 0, 0) >>,
              << Row("J1", EstTarget, 2, 1, "F_pos", 1, 0, 0) >> >> }
    ELSE {}

RunKeys ==
    { <<"Xmm_DR13", "CSC_2.0">>, <<"Xmm_DR13", "Swift">>, <<"eRASS1", "CSC_2.0">>,
      <<"Swift", "eRASS1">> }

\* DR11 holds both sources; the master table holds none, one or both of them
Dr11Run ==
    << [IAUNAME |-> "J2", DETID |-> 5, SC_FVAR |-> Fvar("J2")],
       [IAUNAME |-> "J1", DETID |-> 7, SC_FVAR |-> Fvar("J1")] >>
MasterTables ==
    { <<>>, MasterSmall,
      << MasterRow("J2", "J2", "J2", "J2"), MasterRow("J1", "J1", "J1", "J1") >> }

InitRun ==
    /\ pc = "find_nearby_sources"
    /\ cls \in {"XmmCatalog", "CompareCatalog"}
    /\ key \in (IF cls = "XmmCatalog" THEN {<<"XMM", "">>} ELSE RunKeys)
    /\ object_position = EstTarget
    /\ radius = 5
    /\ table \in TablePairs(RunRows \cup {MaskedRow}, key, object_position, radius)
                  \cup ThreeRowTables(key)
    /\ \A k \in 1..2 : key[k] # "CSC_2.0" => MaskedRow \notin Range(table[k])
    /\ small_table = << <<>>, <<>> >>
    /\ nearby_sources_table = << <<>>, <<>> >>
    /\ xmm_dr11_table = Dr11Run
    /\ xmm_2_athena_table = <<>>
    /\ nh_dictionnary = NhMapEst
    /\ index_table = NoTable
    /\ fit_calls = {}
    /\ error = ""
    /\ simulation_data = NominalSimulation
    /\ NothingOptimized
    /\ master_source_cone \in MasterTables
    /\ NothingClassified

Pipeline == NeighbourhoodOfObject \/ DictionaryModel \/ CountRate

NextRun ==
    \/ CompareFindNearbySources \/ XmmFindNearbySources \/ Estimator
    \/ Pipeline \/ CalculateOptiPoint \/ Classifier \/ Aggregator

SpecRun == InitRun /\ [][NextRun]_vars

-----------------------------------------------------------------------------
(* Properties of find_nearby_sources (Spec). *)

\* the prefilter of the table at place k has run
PrefilterRan(k) ==
    /\ pc # "find_nearby_sources"
    /\ key[k] \notin {"CSC_2.0", ""}
    /\ k = 2 => ~NoSourcesDetected(1)

\* C1: the rectangular prefilter never rejects a row the circular cut
\* accepts: every row of a catalog whose separation from the target is
\* below the radius is in the prefiltered table.
C1_PrefilterKeepsCircle ==
    \A k \in 1..2 : PrefilterRan(k) =>
        \A i \in 1..Len(table[k]) :
            ang_separation_lt(object_position, table[k][i], radius)
                => table[k][i] \in Range(small_table[k])

\* C10: when the field-of-view filter leaves no row of an XMM, Swift or
\* eRASS1 catalog, the run stops there: once find_nearby_sources is over, an
\* empty cut means the run has exited.
C10_EmptyFieldStops ==
    \A k \in 1..2 :
        (/\ pc # "find_nearby_sources"
         /\ key[k] \in {"XMM", "Xmm_DR13", "Swift", "eRASS1"}
         /\ Cut(k) = <<>>) => pc = "exit"

\* the names of the rows of a table are all different
OneRowPerName(t) ==
    \A i \in 1..Len(t) : \A j \in 1..Len(t) : t[i].name = t[j].name => i = j

\* C11: the nearby table find_nearby_sources hands to the estimator has one
\* row per source name, also when the field-of-view filter kept two rows of
\* one name with different fluxes.
C11_OneRowPerName ==
    pc \notin {"find_nearby_sources", "exit"} =>
        \A k \in 1..2 :
            key[k] \in {"XMM", "Xmm_DR13", "Swift", "eRASS1"}
                => OneRowPerName(nearby_sources_table[k])

-----------------------------------------------------------------------------
(* Properties of the estimators (SpecEst). *)

\* the place of the XMM table
XmmPlace == IF cls = "XmmCatalog" THEN 1 ELSE PlaceOf("Xmm_DR13")

\* the row (from 1) an index entry names
RowNamed(e, t) == CHOOSE j \in 1..Len(t) : ToString(j - 1) = e.v

\* the DETID of the DR11 row the entry i of the index table names, and its
\* place in Xmm2Athena
DetidOf(i) == xmm_dr11_table[RowNamed(index_table.rows[i].dr11, xmm_dr11_table)].DETID
InX2a(i)   == DetidOf(i) \in Range(Column(xmm_2_athena_table, "DETID"))
X2aRowOf(i) == xmm_2_athena_table[IndexOf(Column(xmm_2_athena_table, "DETID"), DetidOf(i)) + 1]

\* the XMM estimator has returned the table with its two columns
XmmEstimated ==
    /\ XmmPlace # 0
    /\ index_table.built
    /\ \A i \in 1..Len(nearby_sources_table[XmmPlace]) :
          HasPhotonIndex(nearby_sources_table[XmmPlace][i])

\* C5: an XMM source whose index entry is not the sentinel gets the
\* PhoIndex_med of the Xmm2Athena row it is matched to, and is not fitted.
C5_MatchedIndexFromX2a ==
    XmmEstimated =>
        \A i \in 1..Len(index_table.rows) :
            PyNotEqual(index_table.rows[i].x2a, NoDataFound) =>
                /\ nearby_sources_table[XmmPlace][i].PhotonIndex = X2aRowOf(i).PhoIndex_med
                /\ <<XmmPlace, i>> \notin fit_calls

\* C6: a source whose curve fit raises gets the photon index 1.7 and the Nh
\* 3e20, and the run goes on: after the fit was called, the row holds both.
C6_FitFailureRecovered ==
    \A c \in fit_calls :
        curve_fit(nearby_sources_table[c[1]][c[2]].flux).raised =>
            /\ error = ""
            /\ HasPhotonIndex(nearby_sources_table[c[1]][c[2]])
            /\ nearby_sources_table[c[1]][c[2]].PhotonIndex = default_photon_index
            /\ nearby_sources_table[c[1]][c[2]].Nh = default_nh

\* the estimator stage is over
EstimatorDone == pc \in {"neighbourhood_of_object", "variability_table"}

\* C7: after the estimator stage every row of every nearby table has a
\* photon index, and it is above 0.
C7_PhotonIndexPositive ==
    EstimatorDone =>
        \A k \in 1..2 : \A i \in 1..Len(nearby_sources_table[k]) :
            /\ HasPhotonIndex(nearby_sources_table[k][i])
            /\ nearby_sources_table[k][i].PhotonIndex > 0

\* the XMM estimator has run, whatever came of it
XmmEstimatorOver ==
    /\ XmmPlace # 0
    /\ pc \notin {"photon_index_nh_for_xmm", "get_phoindex_nh"}

\* the sources the index table is about: the rows of the catalog (SRCID 0 is
\* a row the user added to XmmCatalog's table)
PrimaryNames ==
    LET FromCatalog(row) == cls = "CompareCatalog" \/ row.SRCID # 0
    IN  Column(SelectSeq(table[XmmPlace], FromCatalog), "name")

\* C8: the index table has one row per primary source, in order: row i
\* holds i, the position of the name in DR11 or a "not found" entry, the
\* position of the DETID in Xmm2Athena or the sentinel; also when a name is
\* missing from DR11.
C8_IndexTableRowPerSource ==
    XmmEstimatorOver =>
        /\ index_table.built
        /\ Len(index_table.rows) = Len(PrimaryNames)
        /\ \A i \in 1..Len(index_table.rows) :
              LET r == index_table.rows[i]
                  names == Column(xmm_dr11_table, "IAUNAME")
              IN  /\ r.src.v = ToString(i - 1)
                  /\ IF PrimaryNames[i] \in Range(names)
                     THEN /\ r.dr11.v = ToString(IndexOf(names, PrimaryNames[i]))
                          /\ InX2a(i) => r.x2a.v = ToString(IndexOf(Column(xmm_2_athena_table, "DETID"), DetidOf(i)))
                          /\ ~InX2a(i) => r.x2a = NoDataFound
                     ELSE /\ r.dr11 \in {NaN, NoDataFound}
                          /\ r.x2a = NoDataFound

-----------------------------------------------------------------------------
(* Properties of calculate_opti_point (SpecOpt). *)

OptimizerDone == pc = "vignetting_factor"

\* the cell of the grid at the target: no offset in RA or in Dec
NominalIdx == GridHalf * Len(DeltaRA) + GridHalf

SnrAt(k, idx) == vector_dictionary[k].SNR[idx + 1]

\* C2: for each catalog the SNR at OptimalPointingIdx is at least the SNR of
\* every cell of the grid, the cell at the target among them.
C2_MaxSnrSelected ==
    OptimizerDone =>
        \A k \in 1..2 :
            /\ \A j \in GridIdx : SnrLeq(SnrAt(k, j), SnrAt(k, OptimalPointingIdx[k]))
            /\ SampleRA(NominalIdx) = object_position.ra
            /\ SampleDEC(NominalIdx) = object_position.dec
            /\ SnrLeq(SnrAt(k, NominalIdx), SnrAt(k, OptimalPointingIdx[k]))

\* the optimizer has left the target for a cell of higher SNR
C2_Witness ==
    /\ OptimizerDone
    /\ \E k \in 1..2 :
          /\ OptimalPointingIdx[k] # NominalIdx
          /\ ~SnrLeq(SnrAt(k, OptimalPointingIdx[k]), SnrAt(k, NominalIdx))

\* C3: when several cells hold the maximal SNR, OptimalPointingIdx is the
\* one of the smallest index: no cell before it holds the SNR it holds.
C3_FirstOfTies ==
    OptimizerDone =>
        \A k \in 1..2 : \A j \in 0..(OptimalPointingIdx[k] - 1) :
            ~SnrEq(SnrAt(k, j), SnrAt(k, OptimalPointingIdx[k]))

\* two cells and more hold the maximum of a map that is not flat
C3_Witness ==
    /\ OptimizerDone
    /\ \E k \in 1..2 :
          /\ \E j \in (OptimalPointingIdx[k] + 1)..(GridSize - 1) :
                SnrEq(SnrAt(k, j), SnrAt(k, OptimalPointingIdx[k]))
          /\ \E j \in GridIdx : ~SnrEq(SnrAt(k, j), SnrAt(k, OptimalPointingIdx[k]))

\* C4: for each of the two catalogs, SRCoptimalSEPAR_k and SRCoptimalRATES_k
\* are the separations and the scaled rates of its sources at
\* (SampleRA[OptimalPointingIdx_k], SampleDEC[OptimalPointingIdx_k]).
C4_OptimumAtOwnPointing ==
    OptimizerDone =>
        \A k \in 1..2 :
            LET own == SeparationsFrom(k, NICERpointing(OptimalPointingIdx[k])) IN
            /\ SRCoptimalSEPAR[k] = own
            /\ SRCoptimalRATES[k] = RatesAt(k, own)

-----------------------------------------------------------------------------
(* Properties of the classifier and of the order of the stages (SpecRun). *)

\* the row indices of a table, from 0
RowIndices(t) == 0..(Len(t) - 1)

\* CompareCatalog: the classifier returns the variable indices; the rows
\* of the other indices are the invariable ones (modeling_source_spectra
\* tests "index in var_index")
VariableSet(k) == Range(var_index[k].idx)
InvariableSet(k) == RowIndices(nearby_sources_table[k]) \ VariableSet(k)

\* XmmCatalog: the INDEX column of the variability table, and the rows whose
\* coordinates are in invar_ra and invar_dec
XmmVariableSet ==
    { IndexValue(variability_table[j].INDEX, Len(nearby_sources_table[1])) :
        j \in 1..Len(variability_table) }
XmmInvariableSet ==
    { i \in RowIndices(nearby_sources_table[1]) :
        /\ nearby_sources_table[1][i + 1].ra \in Range(invar.ra)
        /\ nearby_sources_table[1][i + 1].dec \in Range(invar.dec) }

\* two index sets that are disjoint, cover the rows of t and hold no other index
Partition(V, I, t) ==
    /\ V \cap I = {}
    /\ V \cup I = RowIndices(t)
    /\ V \subseteq RowIndices(t)

\* C12: once the classifier has run on a nearby-sources table, its variable
\* and its invariable index sets are disjoint and together are exactly the
\* row indices of the table, and every variable index is a row index.
C12_IndexSetsPartition ==
    /\ (cls = "CompareCatalog" /\ var_index[1].set) =>
          \A k \in 1..2 : Partition(VariableSet(k), InvariableSet(k), nearby_sources_table[k])
    /\ (cls = "XmmCatalog" /\ invar.set) =>
          Partition(XmmVariableSet, XmmInvariableSet, nearby_sources_table[1])

\* the source of a row has a fractional variability in its catalog of origin
HasFvar(k, row) == k \in {"XMM", "Xmm_DR13"} /\ IsDefined(row.SC_FVAR)

\* the name of a row stands in the column of the master table for its catalog
InMaster(k, row) ==
    k # "XMM" /\ \E j \in 1..Len(master_source_cone) :
                    master_source_cone[j][MasterColumn(k)] = row.name

\* C13: a source is in the variable set if and only if it has a defined
\* fractional variability in its catalog of origin or its name stands in the
\* column of the master table for its catalog.
C13_VariableIffFvarOrMaster ==
    /\ (cls = "CompareCatalog" /\ var_index[1].set) =>
          \A k \in 1..2 : \A i \in RowIndices(nearby_sources_table[k]) :
              i \in VariableSet(k) <=>
                  (HasFvar(key[k], nearby_sources_table[k][i + 1])
                   \/ InMaster(key[k], nearby_sources_table[k][i + 1]))
    /\ (cls = "XmmCatalog" /\ invar.set) =>
          \A i \in RowIndices(nearby_sources_table[1]) :
              i \in XmmVariableSet <=> HasFvar("XMM", nearby_sources_table[1][i + 1])

\* the scaled count rate of row i (from 0) of table k at the cell idx
ScaledRateOf(k, i, idx) ==
    scaled_ct_rate(ang_separation(nearby_sources_table[k][i + 1], NICERpointing(idx)),
                   nearby_sources_table[k][i + 1].count_rate, EffArea, OffAxisAngle)

\* the sum of the scaled count rates of the rows of an index set
RECURSIVE SumOver(_, _, _)
SumOver(I, k, idx) ==
    IF I = {} THEN 0
    ELSE LET i == CHOOSE j \in I : TRUE
         IN  ScaledRateOf(k, i, idx) + SumOver(I \ {i}, k, idx)

\* the optimizer and the classifier have both run
Classified == cls = "CompareCatalog" /\ var_index[1].set

\* C14: at every cell of the grid the SNR is the one of the target against
\* the variable and the invariable sources together, and OptimalPointingIdx
\* is the first maximum of that grid: the variable set gates nothing.
C14_VariableSourcesCounted ==
    Classified =>
        \A k \in 1..2 :
            /\ \A idx \in GridIdx :
                  SnrAt(k, idx) =
                      signal_to_noise(PSRrates(idx),
                                      SumOver(VariableSet(k), k, idx)
                                          + SumOver(InvariableSet(k), k, idx),
                                      simulation_data.INSTbkgd, simulation_data.EXPtime)
            /\ OptimalPointingIdx[k] = FirstOfMax(vector_dictionary[k].SNR)

\* a variable source adds to the contaminating sum of a cell of the grid
C14_Witness ==
    /\ Classified
    /\ \E k \in 1..2 : \E i \in VariableSet(k) : \E idx \in GridIdx :
          ScaledRateOf(k, i, idx) > 0

\* the stage of the pipeline that the next statement of __init__ belongs to:
\* 1 the field-of-view filter, 2 the estimators, 3 the classifier, 4 the
\* optimizer, 5 the vignetting at the optimal pointing, 6 the spectra; 0 for
\* the statements between the stages and for a run that has ended
StageOf(p) ==
    CASE p = "find_nearby_sources" -> 1
      [] p \in {"photon_index_nh_for_xmm", "photon_index_nh_for_csc",
                "photon_index_nh_for_swift", "photon_index_nh_for_erass1",
                "get_phoindex_nh"} -> 2
      [] p \in {"variability_table", "variability_index"} -> 3
      [] p = "calculate_opti_point" -> 4
      [] p = "vignetting_factor" -> 5
      [] p \in {"modeling_source_spectra", "total_spectra_plot"} -> 6
      [] OTHER -> 0

\* what a stage leaves once it has run
EstimatorsRan ==
    \A k \in 1..2 : \A i \in 1..Len(nearby_sources_table[k]) :
        "PhotonIndex" \in DOMAIN nearby_sources_table[k][i]
ClassifierRan == var_index[1].set /\ var_index[2].set
OptimizerRan == vector_dictionary # << <<>>, <<>> >>
VignettingRan ==
    \A k \in 1..2 : \A i \in 1..Len(nearby_sources_table[k]) :
        "vignetting_factor" \in DOMAIN nearby_sources_table[k][i]

\* C15: when a stage of a CompareCatalog run is about to start, the stages
\* before it have run, in the order filter, estimators, classifier,
\* optimizer, vignetting, spectra: the classifier has set the variable
\* indices when the optimizer starts.
C15_StagesInOrder ==
    cls = "CompareCatalog" =>
        /\ StageOf(pc) >= 3 => EstimatorsRan
        /\ StageOf(pc) >= 4 => ClassifierRan
        /\ StageOf(pc) >= 5 => OptimizerRan
        /\ StageOf(pc) >= 6 => VignettingRan

-----------------------------------------------------------------------------
(* Properties of calculate_opti_point on its edge cases (SpecOpt). *)

\* C16: on a table without a source calculate_opti_point returns without an
\* error, the contaminating sum is 0 at every cell, and the SNR of every cell
\* is signal_to_noise of the target's rate there against no source.
C16_NoSourceTargetOnly ==
    OptimizerDone =>
        \A k \in 1..2 :
            nearby_sources_table[k] = <<>> =>
                /\ error = ""
                /\ \A idx \in GridIdx :
                      /\ SRCrates(k, idx) = 0
                      /\ SnrAt(k, idx) =
                            signal_to_noise(PSRrates(idx), 0, simulation_data.INSTbkgd,
                                            simulation_data.EXPtime)
                /\ SRCoptimalSEPAR[k] = <<>>
                /\ SRCoptimalRATES[k] = <<>>

\* one table is empty, and the sources of the other lower the SNR of a cell
C16_Witness ==
    /\ OptimizerDone
    /\ nearby_sources_table[1] = <<>>
    /\ nearby_sources_table[2] # <<>>
    /\ \E idx \in GridIdx : SnrAt(1, idx) # SnrAt(2, idx)

\* C17: with a target count rate that is not positive, calculate_opti_point
\* ends with the error InvalidTargetRate and returns no grid and no optimal
\* pointing.
C17_NonPositiveTargetRejected ==
    (simulation_data.count_rate <= 0 /\ pc # "calculate_opti_point") =>
        /\ error = "InvalidTargetRate"
        /\ vector_dictionary = << <<>>, <<>> >>
        /\ ~OptimizerDone

\* the rates under the square root of the SNR of table k at the cell idx
RateSum(k, idx) == PSRrates(idx) + SRCrates(k, idx) + simulation_data.INSTbkgd

\* a ratio that is a number: its denominator is positive
Finite(snr) == snr.den > 0 /\ snr.num >= 0

-----------------------------------------------------------------------------
(* Properties of the spectra (SpecRun). *)

\* total_spectra_plot has returned data_1 and data_2
SpectraPlotted == cls = "CompareCatalog" /\ pc = "write_txt_file"

\* the spectrum of row i (from 0) of table k, at realization r and bin b
SpectrumAt(k, i, r, b) ==
    fakeit(nearby_sources_table[k][i + 1])[r][b] * nearby_sources_table[k][i + 1].vignetting_factor

\* the sum of the spectra of the rows of an index set, 0 for no row
RECURSIVE SpectraSum(_, _, _, _)
SpectraSum(I, k, r, b) ==
    IF I = {} THEN 0
    ELSE LET i == CHOOSE j \in I : TRUE
         IN  SpectrumAt(k, i, r, b) + SpectraSum(I \ {i}, k, r, b)

Realizations == 1..4
Bins == 1..2

\* twice the median over the realizations of the summed spectra of an index set
MedianOfSum(I, k, b) == Median2([r \in Realizations |-> SpectraSum(I, k, r, b)])

\* C19: for each catalog and each energy bin, Counts is the median over the
\* realizations of the sum of the spectra of all its sources, and the upper
\* and the lower limit are Counts plus and minus V, the median of the sum of
\* the spectra of the variable sources of that catalog.
C19_EnvelopeOfOwnVariables ==
    SpectraPlotted =>
        \A k \in 1..2 : \A b \in Bins :
            LET counts == MedianOfSum(RowIndices(nearby_sources_table[k]), k, b)
                V      == MedianOfSum(VariableSet(k), k, b)
            IN  /\ data[k].Counts[b] = counts
                /\ data[k].Upper_limit[b] = counts + V
                /\ data[k].Lower_limit[b] = counts - V
                /\ data[k].Upper_limit[b] - data[k].Counts[b]
                      = data[k].Counts[b] - data[k].Lower_limit[b]

-----------------------------------------------------------------------------
(* Properties of the grid of calculate_opti_point (SpecOpt). *)

\* the offsets of the grid, as a set
Offsets(delta) == Range(delta)

\* C20: the grid has the same offsets in RA and in Dec, from min_value in
\* steps of one to below max_value; with every offset the set holds its
\* opposite; and every pair of offsets is one cell of the grid and one alone,
\* at the target's position plus the pair.
C20_SymmetricGrid ==
    OptimizerDone =>
        /\ DeltaRA = DeltaDEC
        /\ Offsets(DeltaRA) = { d \in min_value..(max_value - 1) : TRUE }
        /\ \A d \in Offsets(DeltaRA) : -d \in Offsets(DeltaRA)
        /\ \A k \in 1..2 : \A dra \in Offsets(DeltaRA) : \A ddec \in Offsets(DeltaDEC) :
              Cardinality({ idx \in GridIdx :
                  /\ vector_dictionary[k].SampleRA[idx + 1] = object_position.ra + dra
                  /\ vector_dictionary[k].SampleDEC[idx + 1] = object_position.dec + ddec }) = 1

-----------------------------------------------------------------------------
(* Properties of the circular cut (Spec). *)

\* find_nearby_sources has returned its tables and no later stage has run
FilterReturned == pc \in {"photon_index_nh_for_xmm", "get_phoindex_nh"}

\* the catalogs find_nearby_sources filters itself
IsFiltered(k) == key[k] \in {"XMM", "Xmm_DR13", "Swift", "eRASS1"}

\* n holds rows of t in the order t has them
KeepsOrder(n, t) ==
    \E f \in [1..Len(n) -> 1..Len(t)] :
        /\ \A i \in 1..Len(n) : n[i] = t[f[i]]
        /\ \A i \in 1..Len(n) : \A j \in 1..Len(n) : i < j => f[i] < f[j]

\* C21: every row of a table the field-of-view filter returns is strictly
\* closer to the target than the radius (a row exactly at the radius is
\* left out), and the rows are in the order the input catalog has them.
C21_StrictCutKeepsOrder ==
    FilterReturned =>
        \A k \in 1..2 : IsFiltered(k) =>
            /\ \A i \in 1..Len(nearby_sources_table[k]) :
                 SeparationSq(object_position, nearby_sources_table[k][i])
                     < radius * radius
            /\ KeepsOrder(nearby_sources_table[k], table[k])

\* a catalog with a row exactly at the radius and a row inside it: the
\* filter returned the second and not the first
C21_Witness ==
    /\ FilterReturned
    /\ \E k \in 1..2 :
        /\ IsFiltered(k)
        /\ nearby_sources_table[k] # <<>>
        /\ \E i \in 1..Len(table[k]) :
            /\ SeparationSq(object_position, table[k][i]) = radius * radius
            /\ table[k][i] \notin Range(nearby_sources_table[k])

-----------------------------------------------------------------------------
(* Properties of the column density (SpecEst). *)

\* the squared RA/Dec distance of a source to a row of the sky map
MapDistSq(row, e) ==
    (e.RA2000 - row.ra) * (e.RA2000 - row.ra) + (e.DEC2000 - row.dec) * (e.DEC2000 - row.dec)

\* v is the NHI of the first of the sky-map rows nearest to the source
IsNearestNhi(row, v) ==
    \E b \in 1..Len(nh_dictionnary) :
        /\ nh_dictionnary[b].NHI = v
        /\ \A j \in 1..Len(nh_dictionnary) :
              MapDistSq(row, nh_dictionnary[b]) <= MapDistSq(row, nh_dictionnary[j])
        /\ \A j \in 1..(b-1) :
              MapDistSq(row, nh_dictionnary[b]) < MapDistSq(row, nh_dictionnary[j])

\* the catalogs hold no column density for the source: a Chandra row
\* without nh_gal, an XMM row of CompareCatalog whose detection is not in
\* Xmm2Athena, any row of Swift, eRASS1 or XmmCatalog
NoCatalogNh(k, row) ==
    CASE key[k] = "CSC_2.0"  -> row.nh_gal = 0
      [] key[k] = "Xmm_DR13" ->
            \/ row.name \notin Range(Column(xmm_dr11_table, "IAUNAME"))
            \/ xmm_dr11_table[PositionInDr11(row.name) + 1].DETID
                   \notin Range(Column(xmm_2_athena_table, "DETID"))
      [] OTHER -> TRUE

HasNh(row) == "Nh" \in DOMAIN row

\* C22: a source the catalogs hold no column density for is stored with
\* the default 3e20 or, in XmmCatalog, with the NHI of the sky-map row
\* nearest to its own position (the first on ties); a Swift or eRASS1
\* source always with 3e20.
C22_NhDefaultOrNearestMap ==
    \A k \in 1..2 : \A i \in 1..Len(nearby_sources_table[k]) :
        LET row == nearby_sources_table[k][i] IN
        (HasNh(row) /\ NoCatalogNh(k, row)) =>
            IF key[k] = "XMM" THEN IsNearestNhi(row, row.Nh)
            ELSE row.Nh = default_nh

\* XmmCatalog stored two sources with the NHI of two rows of the sky map
C22_Witness ==
    /\ cls = "XmmCatalog"
    /\ pc = "variability_table"
    /\ Len(nearby_sources_table[1]) = 2
    /\ HasNh(nearby_sources_table[1][1])
    /\ nearby_sources_table[1][1].Nh # nearby_sources_table[1][2].Nh

-----------------------------------------------------------------------------
(* Properties of the rows of the nearby tables (SpecRun). *)

\* the table find_nearby_sources returned for the place k
FilterResult(k) ==
    IF cls = "XmmCatalog" THEN (IF k = 1 THEN Cut(1) ELSE <<>>) ELSE NearbyOf(k)

\* the stages after find_nearby_sources are running or over
AfterFilter == pc \notin {"find_nearby_sources", "exit"}

\* the row now holds the columns the row then held, the columns of Kept
\* unchanged, and besides them columns of Added alone
RowKept(then, now, Kept, Added) ==
    /\ DOMAIN then \subseteq DOMAIN now
    /\ \A f \in DOMAIN then \cap Kept : now[f] = then[f]
    /\ (DOMAIN now \ DOMAIN then) \subseteq Added

\* every table has the rows find_nearby_sources returned, in their order
RowsKept(Kept, Added) ==
    \A k \in 1..2 :
        /\ Len(nearby_sources_table[k]) = Len(FilterResult(k))
        /\ \A i \in 1..Len(FilterResult(k)) :
              RowKept(FilterResult(k)[i], nearby_sources_table[k][i], Kept, Added)

CatalogColumns == {"name", "ra", "dec", "flux", "SRCID", "powlaw_gamma", "nh_gal", "SC_FVAR"}

-----------------------------------------------------------------------------
(* Properties of the Chandra estimator (SpecEst). *)

\* photon_index_nh_for_csc has returned the table at place k
CscEstimated(k) ==
    /\ key[k] = "CSC_2.0"
    /\ error = ""
    /\ pc \in {"photon_index_nh_for_swift", "photon_index_nh_for_erass1",
               "neighbourhood_of_object"}

\* what is stored for a fitted source: the fitted photon index when it is
\* above 0 (1.7 is what optimization returns when the fit raises), else 1.7
FittedOrDefault(row) ==
    LET fit == curve_fit(row.flux) IN
    IF ~fit.raised /\ fit.gamma > 0 THEN fit.gamma ELSE default_photon_index

\* C24: photon_index_nh_for_csc stores, for every Chandra source, its
\* powlaw_gamma when that is not zero, without fitting it, and else the
\* fitted photon index when positive and 1.7 when not; the Nh is nh_gal
\* when that is not zero and 3e20 when it is; row i of the columns is the
\* row of source i.
C24_CscPhotonIndexAndNh ==
    \A k \in 1..2 : CscEstimated(k) =>
        /\ Len(nearby_sources_table[k]) = Len(table[k])
        /\ \A i \in 1..Len(table[k]) :
            LET src == table[k][i]
                row == nearby_sources_table[k][i]
            IN  /\ row.name = src.name /\ row.ra = src.ra /\ row.dec = src.dec
                /\ src.powlaw_gamma # 0 =>
                      row.PhotonIndex = src.powlaw_gamma /\ <<k, i>> \notin fit_calls
                /\ src.powlaw_gamma = 0 =>
                      row.PhotonIndex = FittedOrDefault(row) /\ <<k, i>> \in fit_calls
                /\ row.Nh = (IF src.nh_gal # 0 THEN src.nh_gal ELSE default_nh)

\* a Chandra table of a source with powlaw_gamma and a source without it
\* whose fit is negative
C24_Witness ==
    \E k \in 1..2 :
        /\ CscEstimated(k)
        /\ Len(table[k]) = 2
        /\ table[k][1].powlaw_gamma = 0
        /\ curve_fit(table[k][1].flux).gamma < 0
        /\ table[k][2].powlaw_gamma # 0
        /\ nearby_sources_table[k][2].PhotonIndex # nearby_sources_table[k][1].PhotonIndex

-----------------------------------------------------------------------------
(* Properties of modeling_source_spectra (SpecRun). *)

\* modeling_source_spectra has returned its four lists
SpectraModelled == cls = "CompareCatalog" /\ pc = "total_spectra_plot"

\* the rows (from 1) of table k that are in its own variable index, in row order
OwnVariableRows(k) ==
    LET IsVariable(i) == (i - 1) \in VariableSet(k)
    IN  SelectSeq([i \in 1..Len(nearby_sources_table[k]) |-> i], IsVariable)

\* C25: modeling_source_spectra returns in total_spectra_k one spectrum per
\* row of table k, and in total_var_spectra_k the spectra of the rows of
\* table k whose index is in var_index_k, the index of that same catalog,
\* and no other, in row order.
C25_VarSpectraOfOwnIndex ==
    SpectraModelled =>
        \A k \in 1..2 :
            /\ Len(total_spectra[k]) = Len(nearby_sources_table[k])
            /\ \A i \in 1..Len(total_spectra[k]) : \A r \in Realizations : \A b \in Bins :
                  total_spectra[k][i][r][b] = SpectrumAt(k, i - 1, r, b)
            /\ Len(total_var_spectra[k]) = Len(OwnVariableRows(k))
            /\ \A j \in 1..Len(OwnVariableRows(k)) :
                  total_var_spectra[k][j] = total_spectra[k][OwnVariableRows(k)[j]]

-----------------------------------------------------------------------------
(* Properties of the key pairs (SpecRun). *)

\* find_nearby_sources returned two tables with rows to CompareCatalog
BothTablesFilled ==
    /\ cls = "CompareCatalog"
    /\ pc # "find_nearby_sources"
    /\ nearby_sources_table[1] # <<>>
    /\ nearby_sources_table[2] # <<>>

\* C26: a run of CompareCatalog on two different keys with rows in both
\* nearby tables is not stopped by the "Invalid key" exit nor by a variable
\* that is not bound, and once the estimators are over both tables hold the
\* columns Photon Index and Nh: nothing keeps the run from
\* calculate_opti_point.
C26_EveryPairReachesOptimizer ==
    BothTablesFilled =>
        /\ pc # "exit"
        /\ error # "UnboundLocalError"
        /\ (StageOf(pc) \notin {1, 2} /\ pc # "error") =>
              \A k \in 1..2 : \A i \in 1..Len(nearby_sources_table[k]) :
                  /\ HasPhotonIndex(nearby_sources_table[k][i])
                  /\ HasNh(nearby_sources_table[k][i])

-----------------------------------------------------------------------------
(* Properties of the FITS tables (SpecRun). *)

\* write_fits_table has been called for both tables
FitsTablesWritten ==
    /\ cls = "CompareCatalog"
    /\ pc \in {"modeling_source_spectra", "total_spectra_plot", "write_txt_file"}

\* C27: write_fits_table writes the table of every key it is called with
\* to <key>_nearby_sources_table.fits: after the two calls of __init__ the
\* file of both catalogs of the comparison is written.
C27_FitsTableOfBothCatalogs ==
    FitsTablesWritten => \A k \in 1..2 : key[k] \in fits_files

-----------------------------------------------------------------------------
(* Properties of XmmCatalog.get_phoindex_nh (SpecEst). *)

\* get_phoindex_nh has built its index table and gone through its loops on
\* a table whose fits all converge
XmmLoopsOver ==
    /\ cls = "XmmCatalog"
    /\ pc # "get_phoindex_nh"
    /\ index_table.built
    /\ \A i \in 1..Len(table[1]) : ~curve_fit(table[1][i].flux).raised

\* C28: XmmCatalog.get_phoindex_nh gives every source of the nearby table,
\* the sources the user added (SRCID 0) with the others, the Nh of the
\* sky-map row nearest to its own position and the photon index fitted on
\* its own fluxes, in row i of the columns for source i.
C28_EverySourceOwnNhAndIndex ==
    XmmLoopsOver =>
        /\ error = ""
        /\ Len(nearby_sources_table[1]) = Len(table[1])
        /\ \A i \in 1..Len(table[1]) :
            LET row == nearby_sources_table[1][i] IN
            /\ row.name = table[1][i].name
            /\ HasNh(row) /\ HasPhotonIndex(row)
            /\ IsNearestNhi(table[1][i], row.Nh)
            /\ row.PhotonIndex = curve_fit(table[1][i].flux).gamma

-----------------------------------------------------------------------------
(* Properties of the envelope (SpecRun). *)

\* C29: the spectra of the sources being non-negative in every realization
\* and bin, the lower limit total_spectra_plot returns is never negative in
\* any bin: the variable spectra are among the spectra summed into the
\* total, so the median of their sum is at most the median of the total.
C29_LowerLimitNotNegative ==
    SpectraPlotted =>
        \A k \in 1..2 : \A b \in Bins :
            /\ \A i \in 1..Len(total_spectra[k]) : \A r \in Realizations :
                  total_spectra[k][i][r][b] >= 0
            /\ data[k].Lower_limit[b] >= 0

\* a catalog of two sources, one of them variable: the lower limit is
\* above 0 and below the counts
C29_Witness ==
    /\ SpectraPlotted
    /\ \E k \in 1..2 : \E b \in Bins :
        /\ Len(total_var_spectra[k]) < Len(total_spectra[k])
        /\ 0 < data[k].Lower_limit[b]
        /\ data[k].Lower_limit[b] < data[k].Counts[b]

\* total_spectra_plot has been called: it returned, or it raised
SpectraPlotOver ==
    /\ cls = "CompareCatalog"
    /\ pc \in {"write_txt_file", "error"}
    /\ total_spectra # << <<>>, <<>> >>

\* C30: for a catalog without a variable source, whose list of variable
\* spectra is empty, total_spectra_plot returns, and the upper and the lower
\* limit of that catalog are its counts in every bin.
C30_NoVariableSourceCollapses ==
    SpectraPlotOver =>
        \A k \in 1..2 :
            total_var_spectra[k] = <<>> =>
                /\ pc = "write_txt_file"
                /\ \A b \in Bins :
                      /\ data[k].Upper_limit[b] = data[k].Counts[b]
                      /\ data[k].Lower_limit[b] = data[k].Counts[b]

====
